---- MODULE Spec2Model ----
(***************************************************************************)
(* AIS message decoding: the value-semantics layer (navigation.rs) and the *)
(* two exemplar decoders, Base Station Report (type 4) and Static Data     *)
(* Report (type 24), as bit-cursor state machines over a byte buffer.      *)
(***************************************************************************)
EXTENDS Integers, Sequences, FiniteSets, TLC

VARIABLES
    job,        \* which entry point runs: "value", "base" or "static"
    buf,        \* the byte slice handed to parse, as a sequence of bits (8 per byte)
    validBits,  \* bits of buf that came from armor characters (the rest is padding)
    pc,         \* the decoder's position: the field it extracts next, or "done"
    cur,        \* the bit cursor: bits consumed so far (byte offset * 8 + bit offset)
    rec,        \* the local variables bound so far, by field name
    reads,      \* every extraction performed: field, first bit, width
    result,     \* what parse returned: Pending, Ok(record) or Err
    sent,       \* the field values the sender packed into the sentence
    vsFn,       \* the value-semantics function under call
    vsRaw,      \* its argument
    vsOut,      \* its result
    rotRate,    \* the last result of RateOfTurn::rate
    rotDir      \* the last result of RateOfTurn::direction

vars == <<job, buf, validBits, pc, cur, rec, reads, result, sent,
          vsFn, vsRaw, vsOut, rotRate, rotDir>>

-----------------------------------------------------------------------------
(* Bounds of the model.                                                    *)

\* Raw inputs are taken within Near of every boundary of a value function.
Near == 3
\* A Part A sentence carries up to MaxTail valid bits after the vessel name.
MaxTail == 9

-----------------------------------------------------------------------------
(* Arithmetic helpers.                                                     *)

RECURSIVE Pow2(_)
Pow2(n) == IF n = 0 THEN 1 ELSE 2 * Pow2(n - 1)

Abs(n) == IF n < 0 THEN -n ELSE n

Min(a, b) == IF a < b THEN a ELSE b

\* `data as i8` on a u8: reinterpretation of the byte as two's complement.
AsI8(data) == IF data >= 128 THEN data - 256 ELSE data

\* The exponent e of the unit in the last place of an f32 holding |n|:
\* the least e with |n| < 2^(24+e).
RECURSIVE UlpExp(_, _)
UlpExp(m, e) == IF m < Pow2(24 + e) THEN e ELSE UlpExp(m, e + 1)

\* `data as f32` on an integer: round to nearest, ties to even, on a 24-bit
\* significand.
ToF32(n) ==
    LET m   == Abs(n)
        ulp == Pow2(UlpExp(m, 0))
        q   == m \div ulp
        r   == m % ulp
        up  == (2 * r > ulp) \/ (2 * r = ulp /\ q % 2 = 1)
        mag == (IF up THEN q + 1 ELSE q) * ulp
    IN  IF n < 0 THEN -mag ELSE mag

\* An f32 quotient: the numerator as converted to f32, over the divisor.
F32Quot(n, d) == [num |-> ToF32(n), den |-> d]

-----------------------------------------------------------------------------
(* Results of the value-semantics layer.                                   *)

Some(x) == [tag |-> "Some", v |-> x]
None == [tag |-> "None"]
Ok(x) == [tag |-> "Ok", v |-> x]
Unreachable == [tag |-> "Panic"]
Pending == [tag |-> "Pending"]

\* An error message: its text and the value formatted into it.
ShownInt(n) == [kind |-> "int", num |-> n, den |-> 1]
ShownF32(q) == [kind |-> "f32", num |-> q.num, den |-> q.den]
ShownNothing == [kind |-> "none", num |-> 0, den |-> 1]
ErrMsg(text, shown) == [tag |-> "Err", msg |-> text, shown |-> shown]

-----------------------------------------------------------------------------
(* navigation.rs                                                           *)

parse_speed_over_ground(data) ==
    IF data \in 0..1022 THEN Some(F32Quot(data, 10))
    ELSE IF data = 1023 THEN None
    ELSE ErrMsg("Invalid speed over ground: ", ShownInt(data))

\* A faulty variant: the upper bound of the valid range excluded.
parse_longitude_exclusive(data) ==
    IF data \in -108000000..107999999 THEN Some(F32Quot(data, 600000))
    ELSE IF data = 108600000 THEN None
    ELSE ErrMsg("Invalid longitude: ", ShownF32(F32Quot(data, 600000)))

parse_longitude(data) ==
    IF data \in -108000000..108000000 THEN Some(F32Quot(data, 600000))
    ELSE IF data = 108600000 THEN None
    ELSE ErrMsg("Invalid longitude: ", ShownF32(F32Quot(data, 600000)))

parse_latitude(data) ==
    IF data \in -54000000..54000000 THEN Some(F32Quot(data, 600000))
    ELSE IF data = 54600000 THEN None
    ELSE ErrMsg("Invalid latitude: ", ShownF32(F32Quot(data, 600000)))

parse_cog(data) ==
    IF data = 3600 THEN None ELSE Some(F32Quot(data, 10))

parse_heading(data) ==
    IF data \in 0..359 THEN Some(data)
    ELSE IF data = 511 THEN None
    ELSE ErrMsg("Invalid heading: ", ShownInt(data))

Accuracy_parse(data) ==
    IF data = 0 THEN Ok("Unaugmented")
    ELSE IF data = 1 THEN Ok("DGPS")
    ELSE ErrMsg("Unknown accuracy value", ShownNothing)

\* A faulty variant: the literal 128 taken at its face value, which no i8 equals.
RateOfTurn_parse_unwrapped(data) ==
    IF AsI8(data) = 128 THEN None
    ELSE IF AsI8(data) \in -127..127 THEN Some(AsI8(data))
    ELSE Unreachable

\* The first arm's literal 128 is an overflowing i8 literal: it is -128.
RateOfTurn_parse(data) ==
    IF AsI8(data) = AsI8(128) THEN None
    ELSE IF AsI8(data) \in -127..127 THEN Some(AsI8(data))
    ELSE Unreachable

\* A faulty variant: the saturated values 127 and -127 given a magnitude like the others.
RateOfTurn_rate_saturated(raw) ==
    IF raw \in -127..127 THEN Some([num |-> raw * raw, den |-> 22401289])
    ELSE Unreachable

\* (raw as f32 / 4.733).powi(2), kept as raw^2 over 4.733^2 (in millionths).
RateOfTurn_rate(raw) ==
    IF raw \in -126..126 THEN Some([num |-> raw * raw, den |-> 22401289])
    ELSE IF raw = -127 THEN None
    ELSE IF raw = 127 THEN None
    ELSE Unreachable

RateOfTurn_direction(raw) ==
    IF raw = 0 THEN None
    ELSE IF raw \in 1..127 THEN Some("Starboard")
    ELSE IF raw \in -127..-1 THEN Some("Port")
    ELSE Unreachable

-----------------------------------------------------------------------------
(* The bit cursor: nom::bits::complete::take over (byte slice, bit offset), *)
(* and the helpers of the messages module built on it.                     *)

\* The unsigned big-endian value of bits start+1 .. start+w of b.
RECURSIVE BitsValue(_, _, _)
BitsValue(b, start, w) ==
    IF w = 0 THEN 0 ELSE 2 * BitsValue(b, start, w - 1) + b[start + w]

Taken(v, c) == [tag |-> "Ok", v |-> v, cur |-> c]
\* A nom error: its kind, the input position it carries, the bits read before it.
NomErr(kind, c, n) == [tag |-> "Err", kind |-> kind, v |-> 0, cur |-> c, read |-> n]

\* take(count): nothing is read for count = 0; Eof when the slice, counted in
\* whole bytes, holds fewer than count bits past the offset.
take_bits(b, c, count) ==
    IF count = 0 THEN Taken(0, c)
    ELSE IF Len(b) < c + count THEN NomErr("Eof", c, 0)
    ELSE Taken(BitsValue(b, c, count), c + count)

\* take into a u8: the low 8 bits of the field are kept.
take_bits_u8(b, c, count) ==
    LET t == take_bits(b, c, count)
    IN  IF t.tag = "Err" THEN t ELSE Taken(t.v % 256, t.cur)

\* The bits left in the byte slice past the cursor.
remaining_bits(b, c) == Len(b) - c

\* An unsigned field sign-extended on its top bit.
signed_i32(b, c, w) ==
    LET t == take_bits(b, c, w)
    IN  IF t.tag = "Err" THEN t
        ELSE Taken(IF t.v >= Pow2(w - 1) THEN t.v - Pow2(w) ELSE t.v, t.cur)

\* map_res(parser, f): the parser's error, or MapRes in place of f's error,
\* or f's value.
map_res(c, t, o) ==
    IF t.tag = "Err" THEN t
    ELSE IF o.tag = "Err" THEN NomErr("MapRes", c, t.cur - c)
    ELSE Taken(IF o.tag = "Ok" THEN o.v ELSE o, t.cur)

\* The 6-bit character table: 0..31 are '@'.. , 32..63 are ' '.. (ASCII codes).
SixBitChar(n) == IF n < 32 THEN 64 + n ELSE n

\* s without its trailing run of character c.
RECURSIVE TrimEnd(_, _)
TrimEnd(s, c) ==
    IF Len(s) > 0 /\ s[Len(s)] = c THEN TrimEnd(SubSeq(s, 1, Len(s) - 1), c) ELSE s

\* The '@' padding (64) trimmed, then the trailing spaces (32).
TrimPadding(s) == TrimEnd(TrimEnd(s, 64), 32)

\* size bits in 6-bit groups, each mapped to its character, padding trimmed.
parse_6bit_ascii(b, c, size) ==
    IF Len(b) < c + size THEN NomErr("Eof", c, 0)
    ELSE Taken(TrimPadding([i \in 1..(size \div 6) |->
                   SixBitChar(BitsValue(b, c + 6 * (i - 1), 6))]), c + size)

u8_to_bool(data) ==
    IF data = 0 THEN Ok(FALSE)
    ELSE IF data = 1 THEN Ok(TRUE)
    ELSE ErrMsg("Invalid boolean value: ", ShownInt(data))

\* The timestamp fields: the reserved or out-of-calendar value is absent.
parse_year(b, c) ==
    LET t == take_bits(b, c, 14)
    IN  map_res(c, t, IF t.v \in 1..9999 THEN Some(t.v) ELSE None)

parse_month(b, c) ==
    LET t == take_bits(b, c, 4)
    IN  map_res(c, t, IF t.v \in 1..12 THEN Some(t.v) ELSE None)

parse_day(b, c) ==
    LET t == take_bits(b, c, 5)
    IN  map_res(c, t, IF t.v \in 1..31 THEN Some(t.v) ELSE None)

parse_hour(b, c) ==
    LET t == take_bits(b, c, 5)
    IN  map_res(c, t, IF t.v \in 0..23 THEN Some(t.v) ELSE None)

parse_minsec(b, c) ==
    LET t == take_bits(b, c, 6)
    IN  map_res(c, t, IF t.v \in 0..59 THEN Some(t.v) ELSE None)

\* The delegated collaborators (EpfdType::parse, ShipType::parse, parse_radio)
\* are opaque: each either accepts the raw value or rejects it.
Delegated(name, raw, accepted) ==
    IF accepted THEN Some([type |-> name, raw |-> raw])
    ELSE ErrMsg("Unknown value: ", ShownInt(raw))

\* The radio status of a position report: 19 bits, interpreted by message type.
parse_radio(b, c, message_type, accepted) ==
    LET t == take_bits(b, c, 19)
    IN  map_res(c, t, IF accepted THEN Ok([type |-> "RadioStatus", raw |-> t.v,
                                        message_type |-> message_type])
                   ELSE ErrMsg("Unknown value: ", ShownInt(t.v)))

-----------------------------------------------------------------------------
(* Sentences: what a sender packs, and the buffer unarmor makes of it.     *)

\* v on w bits, most significant first (two's complement for v < 0).
ToBits(v, w) == [i \in 1..w |-> ((v % Pow2(w)) \div Pow2(w - i)) % 2]

\* The concatenation of <<value, width>> fields.
RECURSIVE Wire(_)
Wire(fields) ==
    IF Len(fields) = 0 THEN <<>>
    ELSE ToBits(Head(fields)[1], Head(fields)[2]) \o Wire(Tail(fields))

\* A run of sextets (6-bit characters).
RECURSIVE Sextets(_)
Sextets(cs) == IF Len(cs) = 0 THEN <<>> ELSE ToBits(Head(cs), 6) \o Sextets(Tail(cs))

\* cs padded with '@' (sextet 0) to n characters.
PadName(cs, n) == [i \in 1..n |-> IF i <= Len(cs) THEN cs[i] ELSE 0]

\* The buffer unarmor returns for a payload of valid bits: whole bytes, the
\* last one zero-padded.
unarmor(bits) ==
    bits \o [i \in 1..((8 - (Len(bits) % 8)) % 8) |-> 0]

Headers == {<<4, 0, 3669145>>, <<24, 3, 1073741823>>, <<63, 1, 0>>}

Times == {<<2017, 12, 27, 17, 15, 11>>, <<0, 0, 0, 24, 60, 60>>}

LonWire == {-73478868, 108000001, 108600000, -134217728}

LatWire == {22676583, -54000001, 54600000, 54000000}

BaseSent(h, tm, acc, lon, lat, epfd, spare, raim, radio) ==
    [message_type |-> h[1], repeat_indicator |-> h[2], mmsi |-> h[3],
     time |-> tm, accuracy |-> acc, longitude |-> lon, latitude |-> lat,
     epfd |-> epfd, spare |-> spare, raim |-> raim, radio |-> radio]

BaseWire(m) ==
    Wire(<< <<m.message_type, 6>>, <<m.repeat_indicator, 2>>, <<m.mmsi, 30>>,
            <<m.time[1], 14>>, <<m.time[2], 4>>, <<m.time[3], 5>>,
            <<m.time[4], 5>>, <<m.time[5], 6>>, <<m.time[6], 6>>,
            <<m.accuracy, 1>>, <<m.longitude, 28>>, <<m.latitude, 27>>,
            <<m.epfd, 4>>, <<m.spare, 10>>, <<m.raim, 1>>, <<m.radio, 19>> >>)

BaseDefault ==
    BaseSent(<<4, 0, 3669145>>, <<2017, 12, 27, 17, 15, 11>>, 1, -73478868,
             22676583, 15, 0, 1, 2250)

Names == {PadName(<<>>, 20), PadName(<<23, 1, 14>>, 20), [i \in 1..20 |-> 54]}

PartASent(h, name, tail) ==
    [message_type |-> h[1], repeat_indicator |-> h[2], mmsi |-> h[3],
     part |-> 0, name |-> name, tail |-> tail]

PartAWire(m) ==
    Wire(<< <<m.message_type, 6>>, <<m.repeat_indicator, 2>>, <<m.mmsi, 30>>,
            <<m.part, 2>> >>) \o Sextets(m.name) \o m.tail

PartADefault ==
    PartASent(<<24, 0, 413996478>>,
              PadName(<<23, 1, 14, 32, 19, 8, 21, 14, 32, 8, 1, 14, 7, 32, 54, 56,
                        54, 56>>, 20),
              <<0, 0>>)

PartBSent(h, ship, vendor, unit, serial, callsign, bow, spare) ==
    [message_type |-> h[1], repeat_indicator |-> h[2], mmsi |-> h[3],
     part |-> 1, ship_type |-> ship, vendor |-> vendor, unit |-> unit,
     serial |-> serial, callsign |-> callsign, bow |-> bow, stern |-> 8,
     port |-> 2, starboard |-> 2, spare |-> spare]

PartBWire(m) ==
    Wire(<< <<m.message_type, 6>>, <<m.repeat_indicator, 2>>, <<m.mmsi, 30>>,
            <<m.part, 2>>, <<m.ship_type, 8>> >>)
    \o Sextets(m.vendor)
    \o Wire(<< <<m.unit, 4>>, <<m.serial, 20>> >>)
    \o Sextets(m.callsign)
    \o Wire(<< <<m.bow, 9>>, <<m.stern, 9>>, <<m.port, 6>>, <<m.starboard, 6>>,
               <<m.spare, 6>> >>)

PartBDefault ==
    PartBSent(<<24, 0, 257855600>>, 30, <<19, 13, 20>>, 1, 533472,
              <<12, 7, 54, 53, 56, 52, 0>>, 2, 0)

OtherPartSent(h, part, tail) ==
    [message_type |-> h[1], repeat_indicator |-> h[2], mmsi |-> h[3],
     part |-> part, tail |-> tail]

OtherPartWire(m) ==
    Wire(<< <<m.message_type, 6>>, <<m.repeat_indicator, 2>>, <<m.mmsi, 30>>,
            <<m.part, 2>> >>) \o m.tail

\* The first n bits of a sentence: a sender that stops early.
Cut(bits, n) == SubSeq(bits, 1, n)

Around(c) == (c - Near)..(c + Near)

ValueInputs(fn) ==
    CASE fn = "parse_speed_over_ground" ->
            (0..Near) \cup Around(1023) \cup {65535}
      [] fn = "parse_longitude" ->
            Around(-108000000) \cup Around(108000000) \cup Around(108600000)
            \cup Around(0) \cup Around(16777216)
            \cup {-134217728, 134217727, -536870912, 536870912}
      [] fn = "parse_latitude" ->
            Around(-54000000) \cup Around(54000000) \cup Around(54600000)
            \cup Around(0) \cup Around(16777216)
            \cup {-67108864, 67108863, -536870912, 536870912}
      [] fn = "parse_cog" -> (0..Near) \cup Around(3600) \cup {4095, 65535}
      [] fn = "parse_heading" ->
            (0..Near) \cup Around(359) \cup Around(511) \cup {65535}
      [] fn = "Accuracy::parse" -> (0..(1 + Near)) \cup {255}
      [] fn = "RateOfTurn::parse" -> 0..255

ValueFns ==
    {"parse_speed_over_ground", "parse_longitude", "parse_latitude", "parse_cog",
     "parse_heading", "Accuracy::parse", "RateOfTurn::parse"}

-----------------------------------------------------------------------------
(* The initial states: one call of one entry point on one input.           *)

Idle == [tag |-> "Idle"]

\* No local variable bound yet.
NoFields == [f \in {} |-> 0]

DecodeStart(j, m, bits) ==
    /\ job = j
    /\ sent = m
    /\ validBits = Len(bits)
    /\ buf = unarmor(bits)
    /\ pc = "message_type"
    /\ cur = 0
    /\ rec = NoFields
    /\ reads = <<>>
    /\ result = Pending
    /\ vsFn = "none" /\ vsRaw = 0 /\ vsOut = Idle /\ rotRate = Idle /\ rotDir = Idle

InitBase ==
    \/ \E h \in {<<4, 0, 3669145>>, <<63, 1, 0>>}, tm \in Times, acc \in 0..1,
          lon \in LonWire, lat \in LatWire, spare \in {0, 1023}, raim \in 0..1 :
          LET m == BaseSent(h, tm, acc, lon, lat, 7, spare, raim, 2250)
          IN  DecodeStart("base", m, BaseWire(m))
    \/ \E n \in 0..Len(BaseWire(BaseDefault)) :
          DecodeStart("base", BaseDefault, Cut(BaseWire(BaseDefault), n))

InitStatic ==
    \/ \E h \in Headers, name \in Names, k \in 0..MaxTail, bit \in 0..1 :
          LET m == PartASent(h, name, [i \in 1..k |-> bit])
          IN  DecodeStart("static", m, PartAWire(m))
    \/ \E ship \in {30, 255}, vendor \in {<<19, 13, 20>>, <<0, 0, 0>>},
          unit \in {1, 15}, serial \in {533472, 1048575}, bow \in {2, 511},
          spare \in {0, 63} :
          LET m == PartBSent(<<24, 0, 257855600>>, ship, vendor, unit, serial,
                             <<12, 7, 54, 53, 56, 52, 0>>, bow, spare)
          IN  DecodeStart("static", m, PartBWire(m))
    \/ \E h \in Headers, part \in 2..3, k \in {0, 6, 128} :
          LET m == OtherPartSent(h, part, [i \in 1..k |-> 1])
          IN  DecodeStart("static", m, OtherPartWire(m))
    \/ \E n \in 0..Len(PartAWire(PartADefault)) :
          DecodeStart("static", PartADefault, Cut(PartAWire(PartADefault), n))
    \/ \E n \in 0..Len(PartBWire(PartBDefault)) :
          DecodeStart("static", PartBDefault, Cut(PartBWire(PartBDefault), n))

InitValue ==
    /\ job = "value"
    /\ vsFn \in ValueFns
    /\ vsRaw \in ValueInputs(vsFn)
    /\ vsOut = Pending
    /\ rotRate = Idle
    /\ rotDir = Idle
    /\ sent = <<>> /\ validBits = 0 /\ buf = <<>> /\ pc = "done" /\ cur = 0
    /\ rec = NoFields /\ reads = <<>> /\ result = Idle

Init == InitBase \/ InitStatic \/ InitValue

-----------------------------------------------------------------------------
(* Calls of the value-semantics layer.                                     *)

valueVars == <<job, vsFn, vsRaw, rotRate, rotDir>>
decodeVars == <<buf, validBits, pc, cur, rec, reads, result, sent>>

Call(fn, out) ==
    /\ job = "value"
    /\ vsFn = fn
    /\ vsOut.tag = "Pending"
    /\ vsOut' = out
    /\ UNCHANGED <<valueVars, decodeVars>>

CallSpeedOverGround == Call("parse_speed_over_ground", parse_speed_over_ground(vsRaw))

CallLongitude == Call("parse_longitude", parse_longitude(vsRaw))

CallLatitude == Call("parse_latitude", parse_latitude(vsRaw))

CallCog == Call("parse_cog", parse_cog(vsRaw))

CallHeading == Call("parse_heading", parse_heading(vsRaw))

CallAccuracy == Call("Accuracy::parse", Accuracy_parse(vsRaw))

CallRateOfTurn == Call("RateOfTurn::parse", RateOfTurn_parse(vsRaw))

\* rate() and direction() on the RateOfTurn that parse returned, in any order
\* and any number of times.
CallRate ==
    /\ job = "value"
    /\ vsFn = "RateOfTurn::parse"
    /\ vsOut.tag = "Some"
    /\ rotRate' = RateOfTurn_rate(vsOut.v)
    /\ UNCHANGED <<job, vsFn, vsRaw, vsOut, rotDir, decodeVars>>

CallDirection ==
    /\ job = "value"
    /\ vsFn = "RateOfTurn::parse"
    /\ vsOut.tag = "Some"
    /\ rotDir' = RateOfTurn_direction(vsOut.v)
    /\ UNCHANGED <<job, vsFn, vsRaw, vsOut, rotRate, decodeVars>>

-----------------------------------------------------------------------------
(* The decoders, one action per extraction.                                *)

Read(field, start, width) == [field |-> field, start |-> start, width |-> width]

\* One `let (data, x) = parser(data)?;` line: on an error parse returns it; else
\* x is bound and the returned cursor kept (or dropped, for `let (_, x)`).
Step(j, here, next, field, t, advance) ==
    /\ job = j
    /\ pc = here
    /\ IF t.tag = "Err"
         THEN /\ result' = [tag |-> "Err", kind |-> t.kind, field |-> field,
                            pos |-> t.cur]
              /\ pc' = "done"
              /\ reads' = IF t.read > 0 THEN Append(reads, Read(field, cur, t.read))
                          ELSE reads
              /\ UNCHANGED <<cur, rec>>
         ELSE /\ rec' = (field :> t.v) @@ rec
              /\ reads' = Append(reads, Read(field, cur, t.cur - cur))
              /\ cur' = IF advance THEN t.cur ELSE cur
              /\ pc' = next
              /\ UNCHANGED result
    /\ UNCHANGED <<job, buf, validBits, sent, vsFn, vsRaw, vsOut, rotRate, rotDir>>

\* The record built after the last extraction, handed back through bits() and
\* returned by parse.
Return(j, record) ==
    /\ job = j
    /\ pc = "return"
    /\ result' = Ok(record)
    /\ pc' = "done"
    /\ UNCHANGED <<job, buf, validBits, cur, rec, reads, sent,
                   vsFn, vsRaw, vsOut, rotRate, rotDir>>

(* base_station_report.rs *)

BaseMessageType ==
    Step("base", "message_type", "repeat_indicator", "message_type",
         take_bits(buf, cur, 6), TRUE)

BaseRepeatIndicator ==
    Step("base", "repeat_indicator", "mmsi", "repeat_indicator",
         take_bits(buf, cur, 2), TRUE)

BaseMmsi ==
    Step("base", "mmsi", "year", "mmsi", take_bits(buf, cur, 30), TRUE)

BaseYear == Step("base", "year", "month", "year", parse_year(buf, cur), TRUE)

BaseMonth == Step("base", "month", "day", "month", parse_month(buf, cur), TRUE)

BaseDay == Step("base", "day", "hour", "day", parse_day(buf, cur), TRUE)

BaseHour == Step("base", "hour", "minute", "hour", parse_hour(buf, cur), TRUE)

BaseMinute == Step("base", "minute", "second", "minute", parse_minsec(buf, cur), TRUE)

BaseSecond == Step("base", "second", "fix_quality", "second", parse_minsec(buf, cur), TRUE)

BaseFixQuality ==
    LET t == take_bits(buf, cur, 1)
    IN  Step("base", "fix_quality", "longitude", "fix_quality",
             map_res(cur, t, Accuracy_parse(t.v)), TRUE)

\* A faulty variant: the longitude mapped without validation (map in place of map_res).
BaseLongitude_unvalidated ==
    LET t == signed_i32(buf, cur, 28)
    IN  Step("base", "longitude", "latitude", "longitude",
             IF t.tag = "Err" THEN t ELSE Taken(Some(F32Quot(t.v, 600000)), t.cur),
             TRUE)

BaseLongitude ==
    LET t == signed_i32(buf, cur, 28)
    IN  Step("base", "longitude", "latitude", "longitude",
             map_res(cur, t, parse_longitude(t.v)), TRUE)

BaseLatitude ==
    LET t == signed_i32(buf, cur, 27)
    IN  Step("base", "latitude", "epfd_type", "latitude",
             map_res(cur, t, parse_latitude(t.v)), TRUE)

BaseEpfdType ==
    \E accepted \in BOOLEAN :
        LET t == take_bits(buf, cur, 4)
        IN  Step("base", "epfd_type", "_spare", "epfd_type",
                 map_res(cur, t, Delegated("EpfdType", t.v, accepted)), TRUE)

\* A faulty variant: a spare of 8 bits.
BaseSpare_short ==
    Step("base", "_spare", "raim", "_spare", take_bits_u8(buf, cur, 8), TRUE)

BaseSpare ==
    Step("base", "_spare", "raim", "_spare", take_bits_u8(buf, cur, 10), TRUE)

BaseRaim ==
    LET t == take_bits(buf, cur, 1)
    IN  Step("base", "raim", "radio_status", "raim",
             map_res(cur, t, u8_to_bool(t.v)), TRUE)

BaseRadioStatus ==
    /\ job = "base"
    /\ pc = "radio_status"
    /\ \E accepted \in BOOLEAN :
           Step("base", "radio_status", "return", "radio_status",
                parse_radio(buf, cur, rec["message_type"], accepted), TRUE)

BaseStationReport ==
    [message_type |-> rec["message_type"],
     repeat_indicator |-> rec["repeat_indicator"],
     mmsi |-> rec["mmsi"],
     year |-> rec["year"],
     month |-> rec["month"],
     day |-> rec["day"],
     hour |-> rec["hour"],
     minute |-> rec["minute"],
     second |-> rec["second"],
     fix_quality |-> rec["fix_quality"],
     longitude |-> rec["longitude"],
     latitude |-> rec["latitude"],
     epfd_type |-> rec["epfd_type"],
     raim |-> rec["raim"],
     radio_status |-> rec["radio_status"]]

BaseReturn == Return("base", BaseStationReport)

(* static_data_report.rs *)

StaticMessageType ==
    Step("static", "message_type", "repeat_indicator", "message_type",
         take_bits(buf, cur, 6), TRUE)

StaticRepeatIndicator ==
    Step("static", "repeat_indicator", "mmsi", "repeat_indicator",
         take_bits(buf, cur, 2), TRUE)

StaticMmsi ==
    Step("static", "mmsi", "part_number", "mmsi", take_bits(buf, cur, 30), TRUE)

StaticPartNumber ==
    Step("static", "part_number", "match", "part_number",
         take_bits(buf, cur, 2), TRUE)

\* match part_number: the arm taken.
MatchPart(part_number) ==
    CASE part_number = 0 -> "vessel_name"
      [] part_number = 1 -> "ship_type"
      [] part_number \in {2, 3} -> "Digit"
      [] OTHER -> "panic"

StaticMatchPart ==
    /\ job = "static"
    /\ pc = "match"
    /\ LET arm == MatchPart(rec["part_number"])
       IN  IF arm = "panic"
             THEN result' = Unreachable /\ pc' = "done"
           ELSE IF arm = "Digit"
             THEN /\ result' = [tag |-> "Err", kind |-> "Digit",
                                field |-> "part_number", pos |-> cur]
                  /\ pc' = "done"
           ELSE result' = result /\ pc' = arm
    /\ UNCHANGED <<job, buf, validBits, cur, rec, reads, sent,
                   vsFn, vsRaw, vsOut, rotRate, rotDir>>

StaticVesselName ==
    Step("static", "vessel_name", "_spare_a", "vessel_name",
         parse_6bit_ascii(buf, cur, 120), TRUE)

\* A faulty variant: the 7 spare bits always required.
SpareWidth_fixed(left) == 7

\* The spare bits of Part A: as many as are left, at most 7.
SpareWidth(left) == Min(left, 7)

StaticSpareA ==
    Step("static", "_spare_a", "return", "_spare",
         take_bits_u8(buf, cur, SpareWidth(remaining_bits(buf, cur))), TRUE)

StaticShipType ==
    \E accepted \in BOOLEAN :
        LET t == take_bits(buf, cur, 8)
        IN  Step("static", "ship_type", "vendor_id", "ship_type",
                 map_res(cur, t, Delegated("ShipType", t.v, accepted)), TRUE)

\* A faulty variant: the cursor past vendor_id dropped, as it is for model_serial.
StaticVendorId_lookahead ==
    Step("static", "vendor_id", "model_serial", "vendor_id",
         parse_6bit_ascii(buf, cur, 18), FALSE)

StaticVendorId ==
    Step("static", "vendor_id", "model_serial", "vendor_id",
         parse_6bit_ascii(buf, cur, 18), TRUE)

\* `let (_, model_serial)`: the cursor past model_serial is dropped.
StaticModelSerial ==
    Step("static", "model_serial", "unit_model_code", "model_serial",
         parse_6bit_ascii(buf, cur, 24), FALSE)

StaticUnitModelCode ==
    Step("static", "unit_model_code", "serial_number", "unit_model_code",
         take_bits(buf, cur, 4), TRUE)

StaticSerialNumber ==
    Step("static", "serial_number", "callsign", "serial_number",
         take_bits(buf, cur, 20), TRUE)

StaticCallsign ==
    Step("static", "callsign", "dimension_to_bow", "callsign",
         parse_6bit_ascii(buf, cur, 42), TRUE)

StaticDimensionToBow ==
    Step("static", "dimension_to_bow", "dimension_to_stern", "dimension_to_bow",
         take_bits(buf, cur, 9), TRUE)

StaticDimensionToStern ==
    Step("static", "dimension_to_stern", "dimension_to_port", "dimension_to_stern",
         take_bits(buf, cur, 9), TRUE)

StaticDimensionToPort ==
    Step("static", "dimension_to_port", "dimension_to_starboard", "dimension_to_port",
         take_bits(buf, cur, 6), TRUE)

StaticDimensionToStarboard ==
    Step("static", "dimension_to_starboard", "_spare_b", "dimension_to_starboard",
         take_bits(buf, cur, 6), TRUE)

StaticSpareB ==
    Step("static", "_spare_b", "return", "_spare", take_bits_u8(buf, cur, 6), TRUE)

PartA == [part |-> "PartA", vessel_name |-> rec["vessel_name"]]

PartB ==
    [part |-> "PartB",
     ship_type |-> rec["ship_type"],
     vendor_id |-> rec["vendor_id"],
     model_serial |-> rec["model_serial"],
     unit_model_code |-> rec["unit_model_code"],
     serial_number |-> rec["serial_number"],
     callsign |-> rec["callsign"],
     dimension_to_bow |-> rec["dimension_to_bow"],
     dimension_to_stern |-> rec["dimension_to_stern"],
     dimension_to_port |-> rec["dimension_to_port"],
     dimension_to_starboard |-> rec["dimension_to_starboard"]]

StaticDataReport ==
    [message_type |-> rec["message_type"],
     repeat_indicator |-> rec["repeat_indicator"],
     mmsi |-> rec["mmsi"],
     message_part |-> IF rec["part_number"] = 0 THEN PartA ELSE PartB]

StaticReturn == Return("static", StaticDataReport)

-----------------------------------------------------------------------------

Next ==
    \/ CallSpeedOverGround \/ CallLongitude \/ CallLatitude \/ CallCog
    \/ CallHeading \/ CallAccuracy \/ CallRateOfTurn \/ CallRate \/ CallDirection
    \/ BaseMessageType \/ BaseRepeatIndicator \/ BaseMmsi \/ BaseYear \/ BaseMonth
    \/ BaseDay \/ BaseHour \/ BaseMinute \/ BaseSecond \/ BaseFixQuality
    \/ BaseLongitude \/ BaseLatitude \/ BaseEpfdType \/ BaseSpare \/ BaseRaim
    \/ BaseRadioStatus \/ BaseReturn
    \/ StaticMessageType \/ StaticRepeatIndicator \/ StaticMmsi \/ StaticPartNumber
    \/ StaticMatchPart \/ StaticVesselName \/ StaticSpareA \/ StaticShipType
    \/ StaticVendorId \/ StaticModelSerial \/ StaticUnitModelCode
    \/ StaticSerialNumber \/ StaticCallsign \/ StaticDimensionToBow
    \/ StaticDimensionToStern \/ StaticDimensionToPort
    \/ StaticDimensionToStarboard \/ StaticSpareB \/ StaticReturn

Spec == Init /\ [][Next]_vars

-----------------------------------------------------------------------------
(* Properties.                                                             *)

Decoding == job \in {"base", "static"}

IsBound(f) == f \in DOMAIN rec

\* C1: coordinate decoding is a total three-way classification of the raw
\* integer: within [-B, B] a present value raw/600000 (as an f32 quotient, the
\* numerator within f32 rounding of raw), the sentinel S absent, anything else
\* a failure; and so for the 28-bit longitude field of a Base Station Report.
C1_Classified(raw, out, B, S) ==
    IF raw \in (-B)..B
        THEN /\ out.tag = "Some"
             /\ out.v.den = 600000
             /\ Abs(out.v.num - raw) * 16777216 <= Abs(raw)
    ELSE IF raw = S THEN out.tag = "None"
    ELSE out.tag = "Err"

C1_CoordinateClassification ==
    /\ (job = "value" /\ vsFn = "parse_longitude" /\ vsOut.tag # "Pending")
          => C1_Classified(vsRaw, vsOut, 108000000, 108600000)
    /\ (job = "value" /\ vsFn = "parse_latitude" /\ vsOut.tag # "Pending")
          => C1_Classified(vsRaw, vsOut, 54000000, 54600000)
    /\ (job = "base" /\ validBits = 168 /\ pc \notin {"message_type",
            "repeat_indicator", "mmsi", "year", "month", "day", "hour", "minute",
            "second", "fix_quality", "longitude"})
          => C1_Classified(sent.longitude,
                           IF IsBound("longitude") THEN rec["longitude"]
                           ELSE [tag |-> IF result.tag = "Err"
                                            /\ result.field = "longitude"
                                            /\ result.kind = "MapRes"
                                         THEN "Err" ELSE "Skipped"],
                           108000000, 108600000)

C1_Witness ==
    /\ job = "value"
    /\ vsFn = "parse_longitude"
    /\ vsRaw \in 108000001..108599999
    /\ vsOut.tag = "Err"

\* C2: RateOfTurn::parse is absent exactly on 0x80; rate() is absent exactly on
\* signed 127 and -127 and 0 on raw 0; direction() is absent exactly on 0,
\* Starboard on 1..127 and Port on -127..-1.
C2_RateOfTurn ==
    (job = "value" /\ vsFn = "RateOfTurn::parse" /\ vsOut.tag # "Pending") =>
        LET signed == IF vsRaw >= 128 THEN vsRaw - 256 ELSE vsRaw
        IN  /\ (vsOut.tag = "None") <=> (vsRaw = 128)
            /\ vsRaw # 128 => (vsOut.tag = "Some" /\ vsOut.v = signed)
            /\ rotRate.tag # "Idle" =>
                  /\ (rotRate.tag = "None") <=> (signed \in {127, -127})
                  /\ signed \in -126..126 => rotRate.tag = "Some"
                  /\ signed = 0 => rotRate.v.num = 0
            /\ rotDir.tag # "Idle" =>
                  /\ (rotDir.tag = "None") <=> (signed = 0)
                  /\ signed \in 1..127 =>
                        (rotDir.tag = "Some" /\ rotDir.v = "Starboard")
                  /\ signed \in -127..-1 =>
                        (rotDir.tag = "Some" /\ rotDir.v = "Port")

C2_Witness ==
    /\ job = "value"
    /\ vsFn = "RateOfTurn::parse"
    /\ vsRaw = 129
    /\ rotRate.tag = "None"
    /\ rotDir.tag = "Some"
    /\ rotDir.v = "Port"

\* The characters a sender's sextets stand for, padding trimmed.
SentText(cs) == TrimPadding([i \in 1..Len(cs) |-> SixBitChar(cs[i])])

\* C3: once the header, part number 0 and the 120-bit vessel name have parsed,
\* Part A decodes successfully for every number k of bits left in the buffer,
\* reads min(k, 7) of them as spare, and returns the record of the header and
\* the name, whatever k and whatever the spare bits.
C3_SpareTolerance ==
    (job = "static" /\ IsBound("vessel_name")) =>
        LET k == Len(buf) - 160
        IN  /\ result.tag # "Err"
            /\ pc \in {"_spare_a", "return", "done"}
            /\ pc \in {"return", "done"} =>
                  /\ Len(reads) = 6
                  /\ reads[6] = Read("_spare", 160, Min(k, 7))
                  /\ cur = 160 + Min(k, 7)
            /\ (pc = "done" /\ validBits >= 160) =>
                  /\ result.tag = "Ok"
                  /\ result.v = [message_type |-> sent.message_type,
                                 repeat_indicator |-> sent.repeat_indicator,
                                 mmsi |-> sent.mmsi,
                                 message_part |->
                                     [part |-> "PartA",
                                      vessel_name |-> SentText(sent.name)]]

C3_Witness ==
    /\ job = "static"
    /\ sent.part = 0
    /\ validBits = 160
    /\ Len(buf) = 160
    /\ pc = "done"
    /\ result.tag = "Ok"
    /\ Len(result.v.message_part.vessel_name) = 3

\* C4: an unrecognized part number (2 or 3) makes the decode fail with the
\* error UnknownMessagePart.
C4_UnknownMessagePart ==
    (job = "static" /\ pc = "done" /\ IsBound("part_number")
        /\ rec["part_number"] \in {2, 3})
    => (result.tag = "Err" /\ result.kind = "UnknownMessagePart")

\* C4, the rest of the claim: the part number is the extraction right after the
\* 38-bit header; part 0 extracts only Part A fields, part 1 only Part B fields,
\* parts 2 and 3 fail at once with no payload field extracted.
C4_Dispatch ==
    (job = "static" /\ Len(reads) >= 4) =>
        LET payload == {reads[i].field : i \in 5..Len(reads)}
            part == rec["part_number"]
        IN  /\ reads[4] = Read("part_number", 38, 2)
            /\ part = 0 => payload \subseteq {"vessel_name", "_spare"}
            /\ part = 1 => payload \subseteq
                  {"ship_type", "vendor_id", "model_serial", "unit_model_code",
                   "serial_number", "callsign", "dimension_to_bow",
                   "dimension_to_stern", "dimension_to_port",
                   "dimension_to_starboard", "_spare"}
            /\ part \in {2, 3} =>
                  /\ payload = {}
                  /\ pc = "done" => (result.tag = "Err" /\ result.kind = "Digit")
            /\ (pc = "done" /\ result.tag = "Ok") =>
                  result.v.message_part.part = IF part = 0 THEN "PartA" ELSE "PartB"

\* The declared width of each extraction (the Part A spare is as wide as the
\* bits left allow, at most 7).
DeclaredWidth(r) ==
    CASE r.field \in {"message_type", "dimension_to_port", "dimension_to_starboard",
                      "minute", "second"} -> 6
      [] r.field \in {"repeat_indicator", "part_number"} -> 2
      [] r.field = "mmsi" -> 30
      [] r.field = "year" -> 14
      [] r.field \in {"month", "epfd_type", "unit_model_code"} -> 4
      [] r.field \in {"day", "hour"} -> 5
      [] r.field \in {"fix_quality", "raim"} -> 1
      [] r.field = "longitude" -> 28
      [] r.field = "latitude" -> 27
      [] r.field = "radio_status" -> 19
      [] r.field = "vessel_name" -> 120
      [] r.field = "ship_type" -> 8
      [] r.field = "vendor_id" -> 18
      [] r.field = "model_serial" -> 24
      [] r.field = "serial_number" -> 20
      [] r.field = "callsign" -> 42
      [] r.field \in {"dimension_to_bow", "dimension_to_stern"} -> 9
      [] r.field = "_spare" ->
            IF job = "base" THEN 10
            ELSE IF rec["part_number"] = 1 THEN 6
            ELSE Min(Len(buf) - r.start, 7)

BaseOrder ==
    <<"message_type", "repeat_indicator", "mmsi", "year", "month", "day", "hour",
      "minute", "second", "fix_quality", "longitude", "latitude", "epfd_type",
      "_spare", "raim", "radio_status">>

HeaderOrder == <<"message_type", "repeat_indicator", "mmsi", "part_number">>

PartAOrder == HeaderOrder \o <<"vessel_name", "_spare">>

PartBOrder ==
    HeaderOrder \o
    <<"ship_type", "vendor_id", "model_serial", "unit_model_code", "serial_number",
      "callsign", "dimension_to_bow", "dimension_to_stern", "dimension_to_port",
      "dimension_to_starboard", "_spare">>

\* The extraction order of the decode under way.
WireOrder ==
    IF job = "base" THEN BaseOrder
    ELSE IF ~IsBound("part_number") THEN HeaderOrder
    ELSE IF rec["part_number"] = 0 THEN PartAOrder
    ELSE IF rec["part_number"] = 1 THEN PartBOrder
    ELSE HeaderOrder

ReadFields == [i \in 1..Len(reads) |-> reads[i].field]

Prefix(s, n) == SubSeq(s, 1, n)

Range(s) == {s[i] : i \in 1..Len(s)}

LonValid(raw) == raw \in -108000000..108000000 \/ raw = 108600000

LatValid(raw) == raw \in -54000000..54000000 \/ raw = 54600000

\* C5: parse returns a record whose every field was decoded, or an error, never
\* a partial record; the error is that of the first failing field in wire
\* order, and no later field is extracted.
C5_NoPartialRecord ==
    Decoding =>
        /\ result.tag \in {"Pending", "Ok", "Err"}
        /\ (result.tag = "Pending") <=> (pc # "done")
        /\ result.tag = "Ok" =>
              /\ ReadFields = WireOrder
              /\ DOMAIN rec = Range(WireOrder)
              /\ \A f \in DOMAIN result.v \ {"message_part"} : result.v[f] = rec[f]
              /\ DOMAIN result.v =
                    IF job = "base" THEN Range(BaseOrder) \ {"_spare"}
                    ELSE {"message_type", "repeat_indicator", "mmsi", "message_part"}
        /\ result.tag = "Err" =>
              \E i \in 1..Len(WireOrder) :
                  /\ WireOrder[i] = result.field
                  /\ IF result.kind = "Digit"
                       THEN ReadFields = HeaderOrder /\ DOMAIN rec = Range(HeaderOrder)
                       ELSE /\ DOMAIN rec = Range(Prefix(WireOrder, i - 1))
                            /\ ReadFields = Prefix(WireOrder,
                                   IF result.kind = "MapRes" THEN i ELSE i - 1)
                  /\ result.kind = "Eof" =>
                        Len(buf) < result.pos
                            + DeclaredWidth(Read(result.field, result.pos, 0))
        /\ (job = "base" /\ validBits = 168 /\ pc = "done") =>
              /\ ~LonValid(sent.longitude) =>
                    (result.tag = "Err" /\ result.field = "longitude")
              /\ (LonValid(sent.longitude) /\ ~LatValid(sent.latitude)) =>
                    (result.tag = "Err" /\ result.field = "latitude")
              /\ (result.tag = "Err" /\ result.field = "longitude")
                    => ~LonValid(sent.longitude)
              /\ (result.tag = "Err" /\ result.field = "latitude")
                    => ~LatValid(sent.latitude)

C5_Witness ==
    /\ job = "base"
    /\ pc = "done"
    /\ ~LonValid(sent.longitude)
    /\ ~LatValid(sent.latitude)
    /\ result.tag = "Err"
    /\ result.field = "longitude"
    /\ Len(reads) = 11

Overlap(r1, r2) ==
    /\ r1.start < r2.start + r2.width
    /\ r2.start < r1.start + r1.width

\* C6 as stated: every extraction advances the cursor by its width and no bit
\* of the buffer is read by two different extractions.
C6_NoBitReadTwice ==
    Decoding =>
        \A i, j \in 1..Len(reads) : i < j => ~Overlap(reads[i], reads[j])

\* C6 as amended: every extraction reads exactly its declared width from the
\* cursor; the cursor never moves back and moves past every extraction but
\* Part B's model_serial, a 24-bit look-ahead that leaves it in place; so the
\* only bits read twice are those of model_serial, read again by
\* unit_model_code and serial_number.
C6_ForwardOnlyCursor ==
    Decoding =>
        /\ \A i \in 1..Len(reads) :
              /\ reads[i].width = DeclaredWidth(reads[i])
              /\ reads[i].start =
                    IF i = 1 THEN 0
                    ELSE IF reads[i - 1].field = "model_serial" THEN reads[i - 1].start
                    ELSE reads[i - 1].start + reads[i - 1].width
        /\ (Len(reads) > 0 /\ result.tag # "Err") =>
              cur = IF reads[Len(reads)].field = "model_serial"
                       THEN reads[Len(reads)].start
                    ELSE reads[Len(reads)].start + reads[Len(reads)].width
        /\ \A i, j \in 1..Len(reads) :
              (i < j /\ Overlap(reads[i], reads[j])) =>
                  /\ reads[i].field = "model_serial"
                  /\ reads[j].field \in {"unit_model_code", "serial_number"}

C6_Witness ==
    /\ job = "static"
    /\ pc = "callsign"
    /\ Len(reads) = 9
    /\ reads[7] = Read("model_serial", 66, 24)
    /\ reads[8] = Read("unit_model_code", 66, 4)
    /\ reads[9] = Read("serial_number", 70, 20)
    /\ cur = 90

\* C7: the bits consumed never exceed the valid bit length of the buffer, and no
\* extraction returns a value built from padding bits.
C7_CursorWithinValidBits ==
    Decoding =>
        /\ cur <= validBits
        /\ \A i \in 1..Len(reads) : reads[i].start + reads[i].width <= validBits

\* C8: every failure of a value-semantics function names the field and carries
\* the offending raw value as it was extracted.
C8_ErrorCarriesRaw ==
    (job = "value" /\ vsOut.tag = "Err") =>
        /\ vsOut.shown.kind = "int"
        /\ vsOut.shown.num = vsRaw

\* The first bit of the i-th field of a layout of <<field, width>> pairs.
RECURSIVE Offset(_, _)
Offset(layout, i) == IF i = 1 THEN 0 ELSE Offset(layout, i - 1) + layout[i - 1][2]

BaseLayout ==
    << <<"message_type", 6>>, <<"repeat_indicator", 2>>, <<"mmsi", 30>>,
       <<"year", 14>>, <<"month", 4>>, <<"day", 5>>, <<"hour", 5>>,
       <<"minute", 6>>, <<"second", 6>>, <<"fix_quality", 1>>,
       <<"longitude", 28>>, <<"latitude", 27>>, <<"epfd_type", 4>>,
       <<"_spare", 10>>, <<"raim", 1>>, <<"radio_status", 19>> >>

\* C9: a Base Station Report is extracted in the order and widths of its wire
\* layout with no gap or overlap from bit 0, so that the radio status starts at
\* bit 149 and is given the message type of the first 6 bits; each field holds
\* its validated value before the next is extracted; message_type,
\* repeat_indicator and mmsi are the raw header bits.
C9_BaseSequencing ==
    job = "base" =>
        /\ Len(reads) <= Len(BaseLayout)
        /\ \A i \in 1..Len(reads) :
              reads[i] = Read(BaseLayout[i][1], Offset(BaseLayout, i), BaseLayout[i][2])
        /\ pc = "radio_status" => cur = 149
        /\ IsBound("radio_status") =>
              /\ reads[16].start = 149
              /\ rec["radio_status"].message_type = BitsValue(buf, 0, 6)
        /\ IsBound("fix_quality") => rec["fix_quality"] \in {"Unaugmented", "DGPS"}
        /\ IsBound("longitude") =>
              rec["longitude"] = parse_longitude(
                  IF BitsValue(buf, 79, 28) >= 134217728
                      THEN BitsValue(buf, 79, 28) - 268435456
                  ELSE BitsValue(buf, 79, 28))
        /\ IsBound("latitude") =>
              rec["latitude"] = parse_latitude(
                  IF BitsValue(buf, 107, 27) >= 67108864
                      THEN BitsValue(buf, 107, 27) - 134217728
                  ELSE BitsValue(buf, 107, 27))
        /\ IsBound("raim") => rec["raim"] \in BOOLEAN
        /\ result.tag = "Ok" =>
              /\ result.v.message_type = BitsValue(buf, 0, 6)
              /\ result.v.repeat_indicator = BitsValue(buf, 6, 2)
              /\ result.v.mmsi = BitsValue(buf, 8, 30)
              /\ validBits = 168 =>
                    /\ result.v.message_type = sent.message_type
                    /\ result.v.repeat_indicator = sent.repeat_indicator
                    /\ result.v.mmsi = sent.mmsi

C9_Witness ==
    /\ job = "base"
    /\ pc = "done"
    /\ result.tag = "Ok"
    /\ result.v.mmsi = 3669145
    /\ result.v.radio_status.message_type = 4
    /\ cur = 168

\* C10: no input reaches a panic arm: RateOfTurn::parse returns on every u8,
\* the RateOfTurn it returns holds a raw in -127..127 on which rate() and
\* direction() return, and the part number is always one of 0..3.
C10_PanicFreedom ==
    /\ vsOut.tag # "Panic"
    /\ rotRate.tag # "Panic"
    /\ rotDir.tag # "Panic"
    /\ result.tag # "Panic"
    /\ (vsFn = "RateOfTurn::parse" /\ vsOut.tag = "Some") => vsOut.v \in -127..127
    /\ (job = "static" /\ IsBound("part_number")) => rec["part_number"] \in 0..3

C10_Witness ==
    /\ vsFn = "RateOfTurn::parse"
    /\ vsRaw = 127
    /\ rotRate.tag = "None"
    /\ rotDir.tag = "Some"

====
